---------------------------- MODULE Spec2Model ----------------------------
(***************************************************************************)
(* Model of the OpenContext search core (opencontext-core):                *)
(*   - events.rs            : EventBus over a tokio broadcast channel      *)
(*   - search/searcher.rs   : Searcher::new, Searcher::search and the      *)
(*                            vector / BM25 / RRF / aggregation pipeline   *)
(*                                                                         *)
(* Scores are f32 in the source.  They are modelled as fixed-point         *)
(* integers with ONE standing for 1.0; every division rounds down.         *)
(***************************************************************************)
EXTENDS Integers, Sequences, FiniteSets, TLC

VARIABLES
    \* ---- EventBus (events.rs) ----
    chan,        \* the broadcast channel: [buffer, tail]
    rx,          \* per subscriber: the Receiver handed out by subscribe()
    emitted,     \* history: every event passed to emit_doc / emit_folder
    subAt,       \* history: Len(emitted) when the subscriber subscribed
    fellBehind,  \* history: the subscriber was overrun by the publisher
    lastEmit,    \* what the last emit_* call gave back to its caller
    \* ---- Searcher (search/searcher.rs) ----
    searcher,    \* the result of Searcher::new: none yet, a Searcher, or an error
    newLog,      \* history: the construction steps run by new, with their outcome
    pending,     \* the search call in flight: None or Some(options)
    lastCall,    \* history: the options and collaborator outcomes of the last search
    response,    \* what the last search returned
    trace,       \* history: the pipeline steps the last search ran, in order
    \* ---- rrf_fusion and the aggregators applied to drawn inputs ----
    fusionIn,    \* [vector_results, keyword_results, limit]
    fusionOut,   \* [done, scores, results]
    fusionAgain, \* [done, results] of a second execution on the same input
    aggIn,       \* [hits, limit]
    aggOut,      \* [kind, groups, results]
    \* ---- keyword_search and tokenize applied to drawn inputs ----
    kwIn,        \* [all_chunks, query, limit]
    kwOut,       \* [done, results]
    tokIn,       \* the text handed to tokenize
    tokOut       \* [done, tokens]

busVars == <<chan, rx, emitted, subAt, fellBehind, lastEmit>>

searchVars == <<searcher, newLog, pending, lastCall, response, trace>>

fusionVars == <<fusionIn, fusionOut, fusionAgain>>

aggVars == <<aggIn, aggOut>>

kwVars == <<kwIn, kwOut>>

tokVars == <<tokIn, tokOut>>

vars == <<chan, rx, emitted, subAt, fellBehind, lastEmit,
          searcher, newLog, pending, lastCall, response, trace,
          fusionIn, fusionOut, fusionAgain, aggIn, aggOut, kwIn, kwOut, tokIn, tokOut>>

-----------------------------------------------------------------------------
(* Generic helpers *)

Min(a, b) == IF a <= b THEN a ELSE b

Max(a, b) == IF a >= b THEN a ELSE b

Range(s) == {s[i] : i \in 1..Len(s)}

\* Vec::truncate / Iterator::take
Take(s, n) == SubSeq(s, 1, Min(n, Len(s)))

-----------------------------------------------------------------------------
(* EventBus: events.rs *)

\* bounds of the bus model
MaxEmits == 4

\* capacity handed to with_capacity (EventBus::new uses 256, itself a power
\* of two, so tokio keeps exactly that many slots)
BusCapacity == 2

Subscribers == {1, 2}

DocEvents == {[kind |-> "Created", rel_path |-> "test/doc.md"],
              [kind |-> "Deleted", rel_path |-> "test/doc.md"]}

FolderEvents == {[kind |-> "Created", rel_path |-> "test"]}

\* enum Event { Doc(DocEvent), Folder(FolderEvent) }
EventDoc(e) == [tag |-> "Doc", ev |-> e]

EventFolder(e) == [tag |-> "Folder", ev |-> e]

\* broadcast::channel(capacity): an empty ring of `capacity` slots; the
\* initial receiver is dropped at once (let (sender, _) = ...)
with_capacity(capacity) ==
    [buffer |-> <<>>, tail |-> 0, capacity |-> capacity]

NoReceiver == [subscribed |-> FALSE, next |-> 0, received |-> <<>>, lagged |-> <<>>]

subscriber_count == Cardinality({s \in Subscribers : rx[s].subscribed})

\* broadcast::Sender::send: with no receiver the value is handed back as an
\* error and not stored; otherwise it is written to the ring, evicting the
\* oldest slot when the ring is full.  It never waits for a receiver.
SenderSend(ch, value) ==
    IF subscriber_count = 0
    THEN [chan |-> ch, result |-> "Err"]
    ELSE [chan |-> [ch EXCEPT
                      !.buffer = IF Len(ch.buffer) < ch.capacity
                                 THEN Append(ch.buffer, value)
                                 ELSE Append(Tail(ch.buffer), value),
                      !.tail = ch.tail + 1],
          result |-> "Ok"]

\* history bookkeeping shared by both emit operations
EmitHistory(value, newChan) ==
    /\ emitted' = Append(emitted, value)
    /\ fellBehind' = [s \in Subscribers |->
                        fellBehind[s]
                        \/ (rx[s].subscribed
                            /\ newChan.tail - rx[s].next > newChan.capacity)]
    /\ UNCHANGED <<rx, subAt>>
    /\ UNCHANGED <<searchVars, fusionVars, aggVars, kwVars, tokVars>>

\* a faulty emit that hands the send result to its caller
emit_doc_propagating(event) ==
    /\ Len(emitted) < MaxEmits
    /\ LET r == SenderSend(chan, EventDoc(event)) IN
         /\ chan' = r.chan
         /\ lastEmit' = r.result
         /\ EmitHistory(EventDoc(event), r.chan)

\* EventBus::emit_doc: let _ = self.sender.send(Event::Doc(event));
emit_doc(event) ==
    /\ Len(emitted) < MaxEmits
    /\ LET r == SenderSend(chan, EventDoc(event)) IN
         /\ chan' = r.chan
         /\ lastEmit' = "returned"
         /\ EmitHistory(EventDoc(event), r.chan)

\* EventBus::emit_folder: let _ = self.sender.send(Event::Folder(event));
emit_folder(event) ==
    /\ Len(emitted) < MaxEmits
    /\ LET r == SenderSend(chan, EventFolder(event)) IN
         /\ chan' = r.chan
         /\ lastEmit' = "returned"
         /\ EmitHistory(EventFolder(event), r.chan)

\* a faulty subscribe that starts at the oldest retained slot
subscribe_replaying(s) ==
    /\ ~rx[s].subscribed
    /\ rx' = [rx EXCEPT ![s] = [subscribed |-> TRUE,
                                next |-> chan.tail - Len(chan.buffer),
                                received |-> <<>>, lagged |-> <<>>]]
    /\ subAt' = [subAt EXCEPT ![s] = Len(emitted)]
    /\ UNCHANGED <<chan, emitted, fellBehind, lastEmit>>
    /\ UNCHANGED <<searchVars, fusionVars, aggVars, kwVars, tokVars>>

\* EventBus::subscribe: self.sender.subscribe(); the new receiver starts at
\* the current tail and sees only values sent from now on
subscribe(s) ==
    /\ ~rx[s].subscribed
    /\ rx' = [rx EXCEPT ![s] = [subscribed |-> TRUE, next |-> chan.tail,
                                received |-> <<>>, lagged |-> <<>>]]
    /\ subAt' = [subAt EXCEPT ![s] = Len(emitted)]
    /\ UNCHANGED <<chan, emitted, fellBehind, lastEmit>>
    /\ UNCHANGED <<searchVars, fusionVars, aggVars, kwVars, tokVars>>

\* position of the oldest value still in the ring
Oldest(ch) == ch.tail - Len(ch.buffer)

\* rx.recv().await as used by a subscriber (test_event_bus): when the
\* receiver has been overrun it gets Lagged(n) and is moved to the oldest
\* retained value; otherwise it gets the next value in order; with nothing
\* pending it stays suspended (the action is disabled).
recv(s) ==
    /\ rx[s].subscribed
    /\ rx[s].next < chan.tail
    /\ IF rx[s].next < Oldest(chan)
       THEN rx' = [rx EXCEPT ![s].lagged = Append(@, Oldest(chan) - rx[s].next),
                             ![s].next = Oldest(chan)]
       ELSE rx' = [rx EXCEPT ![s].received =
                                 Append(@, chan.buffer[rx[s].next - Oldest(chan) + 1]),
                             ![s].next = @ + 1]
    /\ UNCHANGED <<chan, emitted, subAt, fellBehind, lastEmit>>
    /\ UNCHANGED <<searchVars, fusionVars, aggVars, kwVars, tokVars>>

BusInit ==
    /\ chan = with_capacity(BusCapacity)
    /\ rx = [s \in Subscribers |-> NoReceiver]
    /\ emitted = <<>>
    /\ subAt = [s \in Subscribers |-> 0]
    /\ fellBehind = [s \in Subscribers |-> FALSE]
    /\ lastEmit = "none"


-----------------------------------------------------------------------------
(* EventBus properties *)

\* the events passed to emit_doc / emit_folder since s subscribed
AfterSub(s) == SubSeq(emitted, subAt[s] + 1, Len(emitted))

\* what the ring still holds for s
PendingFor(s) ==
    SubSeq(chan.buffer, rx[s].next - Oldest(chan) + 1, Len(chan.buffer))

IsPrefixOf(p, q) == Len(p) <= Len(q) /\ p = SubSeq(q, 1, Len(p))

RECURSIVE SumSeq(_)
SumSeq(q) == IF q = <<>> THEN 0 ELSE Head(q) + SumSeq(Tail(q))

\* s has received, in emission order and without gap or repeat, a prefix of
\* the events emitted since it subscribed, and the rest is waiting for it
InOrderFor(s) ==
    /\ IsPrefixOf(rx[s].received, AfterSub(s))
    /\ rx[s].received \o PendingFor(s) = AfterSub(s)

\* C1: a subscriber that was never overrun by more than the capacity has
\* received exactly the events emitted after its subscribe(), in emission
\* order: none lost (what it has not yet taken is still queued for it), none
\* duplicated or reordered, and none from before its subscription.
C1_FifoDelivery ==
    \A s \in Subscribers :
        (rx[s].subscribed /\ ~fellBehind[s]) =>
            /\ rx[s].lagged = <<>>
            /\ rx[s].next >= Oldest(chan)
            /\ InOrderFor(s)

\* a subscriber that joined after an event had already been emitted, never
\* fell behind, has taken at least two events and is caught up
C1_Witness ==
    \E s \in Subscribers :
        /\ rx[s].subscribed /\ ~fellBehind[s]
        /\ subAt[s] >= 1
        /\ Len(rx[s].received) >= 2
        /\ rx[s].next = chan.tail

\* C2: only a subscriber that was overrun by more than the capacity sees a
\* "lagged by N" signal, N being the number of events it missed; every emit
\* call returns normally to its caller (also with no subscriber) and is
\* never made to wait; a subscriber that keeps up receives every event in
\* order whatever the others do.
C2_LagIsolated ==
    /\ lastEmit \in {"none", "returned"}
    /\ Len(emitted) < MaxEmits =>
           /\ \A e \in DocEvents : ENABLED emit_doc(e)
           /\ \A e \in FolderEvents : ENABLED emit_folder(e)
    /\ \A s \in Subscribers :
          /\ rx[s].lagged # <<>> => fellBehind[s]
          /\ \A i \in 1..Len(rx[s].lagged) : rx[s].lagged[i] > 0
          /\ rx[s].subscribed =>
                Len(rx[s].received) + SumSeq(rx[s].lagged)
                    + (chan.tail - Max(rx[s].next, Oldest(chan)))
                    + (IF rx[s].next < Oldest(chan)
                       THEN Oldest(chan) - rx[s].next ELSE 0)
                  = Len(AfterSub(s))
          /\ (rx[s].subscribed /\ ~fellBehind[s]
              /\ \E t \in Subscribers \ {s} : fellBehind[t]) =>
                InOrderFor(s) /\ rx[s].lagged = <<>>

\* one subscriber has seen a lag signal while another, which kept up, has
\* taken more events than the ring holds, and the last emit returned
C2_Witness ==
    \E s, t \in Subscribers :
        /\ s # t
        /\ rx[s].lagged # <<>>
        /\ rx[t].subscribed /\ ~fellBehind[t]
        /\ Len(rx[t].received) > BusCapacity
        /\ lastEmit = "returned"

-----------------------------------------------------------------------------
(* Search data model: search/searcher.rs (SearchHit comes from types.rs) *)

\* 1.0 in fixed point
ONE == 1000 * 1000

\* Option<T>: None is <<>>, Some(x) is <<x>>
None == <<>>

Some(x) == <<x>>

\* Option::unwrap_or
UnwrapOr(opt, default) == IF opt = None THEN default ELSE opt[1]

\* file paths are sequences of characters
PathAX == <<"a", "/", "x", ".", "m", "d">>

PathAY == <<"a", "/", "y", ".", "m", "d">>

PathBZ == <<"b", "/", "z", ".", "m", "d">>

PathRoot == <<"r", ".", "m", "d">>

\* texts are sequences of Unicode code points
TextHello == <<104, 105>>

TextHelloWorld == <<72, 105, 32, 119, 111>>

TextData == <<25968, 25454, 24211>>

TextMixed == <<119, 111, 25968, 25454, 32, 97>>

\* a SearchHit; the fields the pipeline only copies (section_title, line_end,
\* entry_*) are left out
Hit(path, line, text, dtype, score, matched) ==
    [file_path |-> path, display_name |-> <<>>, content |-> text,
     heading_path |-> None, line_start |-> line, score |-> score,
     matched_by |-> matched, doc_type |-> dtype,
     hit_count |-> None, doc_count |-> None, folder_path |-> None,
     aggregate_type |-> None]

\* a faulty sort that leaves the list as it was
SortDescKeepOrder(q) == q

\* stable sort by descending score: slice::sort_by(|a, b| b.score.partial_cmp(&a.score))
RECURSIVE InsertDesc(_, _)
InsertDesc(sorted, h) ==
    IF sorted = <<>> THEN <<h>>
    ELSE IF Head(sorted).score >= h.score
         THEN <<Head(sorted)>> \o InsertDesc(Tail(sorted), h)
         ELSE <<h>> \o sorted

RECURSIVE SortDesc(_)
SortDesc(q) ==
    IF q = <<>> THEN <<>>
    ELSE InsertDesc(SortDesc(SubSeq(q, 1, Len(q) - 1)), q[Len(q)])

\* the orders in which a HashMap over the keys S may be iterated
Orders(S) ==
    {q \in [1..Cardinality(S) -> S] : \A i, j \in 1..Cardinality(S) : q[i] = q[j] => i = j}

-----------------------------------------------------------------------------
(* Tokenizer: Searcher::tokenize *)

\* char::to_lowercase on the characters the model uses
ToLower(c) == IF c >= 65 /\ c <= 90 THEN c + 32 ELSE c

is_ascii_alphanumeric(c) ==
    \/ (c >= 48 /\ c <= 57)
    \/ (c >= 65 /\ c <= 90)
    \/ (c >= 97 /\ c <= 122)

\* a faulty range test that leaves out the last character of the block
is_chinese_char_exclusive(c) == c >= 19968 /\ c < 40959

\* ('\u{4e00}'..='\u{9fff}').contains(&c)
is_chinese_char(c) == c >= 19968 /\ c <= 40959

\* add_chinese_tokens: every character, each followed by its 2-gram with the
\* next character when there is one
RECURSIVE ChineseFrom(_, _)
ChineseFrom(chars, i) ==
    IF i > Len(chars) THEN <<>>
    ELSE <<(<<chars[i]>>)>>
         \o (IF i < Len(chars) THEN <<(<<chars[i], chars[i + 1]>>)>> ELSE <<>>)
         \o ChineseFrom(chars, i + 1)

add_chinese_tokens(text, tokens) == tokens \o ChineseFrom(text, 1)

\* flush of the latin accumulator: runs shorter than 2 are dropped
FlushEnglish(english, tokens) ==
    IF Len(english) >= 2 THEN Append(tokens, english) ELSE tokens

FlushChinese(chinese, tokens) ==
    IF chinese # <<>> THEN add_chinese_tokens(chinese, tokens) ELSE tokens

\* the scan loop of tokenize from position i on
RECURSIVE TokenizeFrom(_, _, _, _, _)
TokenizeFrom(text, i, english, chinese, tokens) ==
    IF i > Len(text)
    THEN FlushChinese(chinese, FlushEnglish(english, tokens))
    ELSE LET c == text[i] IN
         IF is_ascii_alphanumeric(c)
         THEN TokenizeFrom(text, i + 1, Append(english, c), <<>>,
                           FlushChinese(chinese, tokens))
         ELSE IF is_chinese_char(c)
         THEN TokenizeFrom(text, i + 1, <<>>, Append(chinese, c),
                           FlushEnglish(english, tokens))
         ELSE TokenizeFrom(text, i + 1, <<>>, <<>>,
                           FlushChinese(chinese, FlushEnglish(english, tokens)))

tokenize(text) ==
    IF text = <<>> THEN <<>>
    ELSE TokenizeFrom([i \in 1..Len(text) |-> ToLower(text[i])], 1, <<>>, <<>>, <<>>)

\* count_tokens: occurrences of one token
CountOf(tokens, t) == Cardinality({i \in 1..Len(tokens) : tokens[i] = t})

-----------------------------------------------------------------------------
(* BM25: Searcher::keyword_search *)

\* 1000 * ln(n) for n = 1..16, the arguments the idf formula can take here
LnMilli ==
    <<0, 693, 1099, 1386, 1609, 1792, 1946, 2079,
      2197, 2303, 2398, 2485, 2565, 2639, 2708, 2773>>

\* format!("{} {}", chunk.content, chunk.heading_path.unwrap_or(""))
Combined(chunk) == chunk.content \o <<32>> \o UnwrapOr(chunk.heading_path, <<>>)

DocTokens(chunk) == tokenize(Combined(chunk))

\* number of chunks whose term-frequency map contains the token
DocFrequency(all_chunks, t) ==
    Cardinality({i \in 1..Len(all_chunks) : CountOf(DocTokens(all_chunks[i]), t) > 0})

\* idf = ln((N - df + 0.5) / (df + 0.5) + 1) = ln((2N + 2) / (2df + 1)), times 1000
Idf(total_docs, df) == LnMilli[2 * total_docs + 2] - LnMilli[2 * df + 1]

\* tf_norm = tf * (K1 + 1) / (tf + K1 * (1 - B + B * dl / avg)) with K1 = 1.2,
\* B = 0.75 and avg = total_length / total_docs, times 1000
TfNorm(tf, doc_length, total_length, total_docs) ==
    (22000 * tf * total_length)
        \div (10 * tf * total_length + 3 * total_length + 9 * doc_length * total_docs)

\* the BM25 score of one chunk, summed over the query tokens from position i
RECURSIVE Bm25From(_, _, _, _, _)
Bm25From(query_tokens, i, tokens, all_chunks, total_length) ==
    IF i > Len(query_tokens) THEN 0
    ELSE LET term == query_tokens[i]
             tf == CountOf(tokens, term)
             df == DocFrequency(all_chunks, term)
             rest == Bm25From(query_tokens, i + 1, tokens, all_chunks, total_length)
         IN IF tf = 0 \/ df = 0 THEN rest
            ELSE (Idf(Len(all_chunks), df)
                    * TfNorm(tf, Len(tokens), total_length, Len(all_chunks))) \div 1000
                 + rest

RECURSIVE TotalLength(_)
TotalLength(all_chunks) ==
    IF all_chunks = <<>> THEN 0
    ELSE Len(DocTokens(Head(all_chunks))) + TotalLength(Tail(all_chunks))

\* the chunks with a positive score, in corpus order, carrying the raw score
RECURSIVE ScoredFrom(_, _, _, _)
ScoredFrom(query_tokens, all_chunks, i, total_length) ==
    IF i > Len(all_chunks) THEN <<>>
    ELSE LET score == Bm25From(query_tokens, 1, DocTokens(all_chunks[i]),
                               all_chunks, total_length)
             rest == ScoredFrom(query_tokens, all_chunks, i + 1, total_length)
         IN IF score > 0
            THEN <<[all_chunks[i] EXCEPT !.score = score, !.matched_by = "keyword"]>>
                 \o rest
            ELSE rest

\* a faulty normalisation that returns the raw BM25 score
NormalizeRaw(score, max_score) == score * (ONE \div 1000)

\* score / max_score in fixed point (to three decimals)
Normalize(score, max_score) ==
    IF max_score > 0 THEN ((score * 1000) \div max_score) * (ONE \div 1000) ELSE 0

keyword_search(all_chunks, query, limit) ==
    LET query_tokens == tokenize(query) IN
    IF query_tokens = <<>> \/ all_chunks = <<>> THEN <<>>
    ELSE LET scored_hits == SortDesc(ScoredFrom(query_tokens, all_chunks, 1,
                                                TotalLength(all_chunks)))
             max_score == IF scored_hits = <<>> THEN ONE ELSE scored_hits[1].score
             taken == Take(scored_hits, limit)
         IN [i \in 1..Len(taken) |->
                [taken[i] EXCEPT !.score = Normalize(taken[i].score, max_score)]]

-----------------------------------------------------------------------------
(* Vector query adapter: Searcher::vector_search *)

\* the outcome of a call to a collaborator: Ok(value) or Err(kind)
Ok(v) == [ok |-> TRUE, err |-> "", value |-> v]

Err(kind) == [ok |-> FALSE, err |-> kind, value |-> <<>>]

\* the result of a retrieval step: the hits or the error, and the steps run
Retrieved(hits, steps) == [ok |-> TRUE, err |-> "", hits |-> hits, steps |-> steps]

Failed(kind, steps) == [ok |-> FALSE, err |-> kind, hits |-> <<>>, steps |-> steps]

\* embed is the outcome of embedding_client.embed_one, store the outcome of
\* vector_store.search: an error, or the hits the store ranks for the query
\* (of which it returns at most `limit`).
vector_search(embed, store, limit) ==
    IF ~embed.ok
    THEN Failed(embed.err, <<"embed_one">>)
    ELSE IF ~store.ok
    THEN Failed(store.err, <<"embed_one", "vector_store.search">>)
    ELSE LET results == Take(store.value, limit) IN
         Retrieved([i \in 1..Len(results) |-> [results[i] EXCEPT !.matched_by = "vector"]],
                   <<"embed_one", "vector_store.search">>)

-----------------------------------------------------------------------------
(* Reciprocal rank fusion: Searcher::rrf_fusion *)

RRF_K == 60

VECTOR_WEIGHT == (7 * ONE) \div 10

KEYWORD_WEIGHT == (3 * ONE) \div 10

\* format!("{}:{}", hit.file_path, hit.line_start.unwrap_or(0))
FusionKey(hit) == <<hit.file_path, UnwrapOr(hit.line_start, 0)>>

\* a faulty fusion loop that divides by RRF_K + index, forgetting the + 1
RECURSIVE ContributeFromZero(_, _, _, _, _)
ContributeFromZero(scores, list, i, weight, source) ==
    IF i > Len(list) THEN scores
    ELSE LET hit == list[i]
             key == FusionKey(hit)
             rrf_score == weight \div (RRF_K + (i - 1))
             next ==
                 IF key \in DOMAIN scores
                 THEN [scores EXCEPT ![key].score = @ + rrf_score,
                                     ![key].sources = Append(@, source)]
                 ELSE [k \in DOMAIN scores \cup {key} |->
                          IF k = key
                          THEN [score |-> rrf_score,
                                hit |-> [hit EXCEPT !.matched_by = "hybrid"],
                                sources |-> <<source>>]
                          ELSE scores[k]]
         IN ContributeFromZero(next, list, i + 1, weight, source)

\* one pass of the fusion loop over a ranked list, from position i on
RECURSIVE Contribute(_, _, _, _, _)
Contribute(scores, list, i, weight, source) ==
    IF i > Len(list) THEN scores
    ELSE LET hit == list[i]
             key == FusionKey(hit)
             rrf_score == weight \div (RRF_K + (i - 1) + 1)
             next ==
                 IF key \in DOMAIN scores
                 THEN [scores EXCEPT ![key].score = @ + rrf_score,
                                     ![key].sources = Append(@, source)]
                 ELSE [k \in DOMAIN scores \cup {key} |->
                          IF k = key
                          THEN [score |-> rrf_score,
                                hit |-> [hit EXCEPT !.matched_by = "hybrid"],
                                sources |-> <<source>>]
                          ELSE scores[k]]
         IN Contribute(next, list, i + 1, weight, source)

EmptyMap == [k \in {} |-> 0]

\* the map `scores` after both loops
FusedScores(vector_results, keyword_results) ==
    Contribute(Contribute(EmptyMap, vector_results, 1, VECTOR_WEIGHT, "vector"),
               keyword_results, 1, KEYWORD_WEIGHT, "keyword")

\* the matched_by given to a fused entry
FusedMatch(entry) ==
    IF Len(entry.sources) > 1 THEN "hybrid"
    ELSE IF "vector" \in Range(entry.sources) THEN "vector" ELSE "keyword"

\* order is the order in which scores.into_values() yields the entries
rrf_fusion(vector_results, keyword_results, limit, order) ==
    LET scores == FusedScores(vector_results, keyword_results)
        results == [i \in 1..Len(order) |->
                       [scores[order[i]].hit EXCEPT
                           !.score = scores[order[i]].score,
                           !.matched_by = FusedMatch(scores[order[i]])]]
    IN Take(SortDesc(results), limit)

-----------------------------------------------------------------------------
(* Aggregation: Searcher::aggregate_by_doc, Searcher::aggregate_by_folder *)

\* index of the last "/" of a path, 0 when there is none
RECURSIVE LastSlash(_, _)
LastSlash(path, i) ==
    IF i = 0 THEN 0 ELSE IF path[i] = "/" THEN i ELSE LastSlash(path, i - 1)

\* path.split('/').next_back()
LastSegment(path) == SubSeq(path, LastSlash(path, Len(path)) + 1, Len(path))

\* str::trim_end_matches(".md"): strips the suffix as often as it occurs
RECURSIVE TrimEndMd(_)
TrimEndMd(name) ==
    IF Len(name) >= 3 /\ SubSeq(name, Len(name) - 2, Len(name)) = <<".", "m", "d">>
    THEN TrimEndMd(SubSeq(name, 1, Len(name) - 3))
    ELSE name

DocDisplayName(file_path) == TrimEndMd(LastSegment(file_path))

\* file_path.rsplit_once('/').map(|(folder, _)| folder).unwrap_or(".")
FolderOf(file_path) ==
    IF LastSlash(file_path, Len(file_path)) = 0 THEN <<".">>
    ELSE SubSeq(file_path, 1, LastSlash(file_path, Len(file_path)) - 1)

FolderDisplayName(folder_path) ==
    IF folder_path = <<".">> THEN <<"(root)">> ELSE LastSegment(folder_path)

\* if hit.score > entry.top_score { entry.top_score = hit.score; entry.top_chunk = hit; }
TrackTop(entry, hit) ==
    IF hit.score > entry.top_score
    THEN [entry EXCEPT !.top_score = hit.score, !.top_chunk = hit]
    ELSE entry

\* a faulty hit counter that counts a group once
CountHitOnce(entry) == [entry EXCEPT !.hit_count = 1]

\* entry.hit_count += 1
CountHit(entry) == [entry EXCEPT !.hit_count = @ + 1]

\* doc_map after the grouping loop of aggregate_by_doc, from position i on
RECURSIVE DocMapFrom(_, _, _)
DocMapFrom(doc_map, hits, i) ==
    IF i > Len(hits) THEN doc_map
    ELSE LET hit == hits[i]
             key == hit.file_path
             inserted ==
                 IF key \in DOMAIN doc_map THEN doc_map
                 ELSE [k \in DOMAIN doc_map \cup {key} |->
                          IF k = key
                          THEN [file_path |-> hit.file_path,
                                display_name |-> DocDisplayName(hit.file_path),
                                top_score |-> 0, hit_count |-> 0, top_chunk |-> hit]
                          ELSE doc_map[k]]
         IN DocMapFrom([inserted EXCEPT ![key] = TrackTop(CountHit(@), hit)], hits, i + 1)

DocMap(hits) == DocMapFrom(EmptyMap, hits, 1)

\* score = topScore * 0.6 + min(hitCount/5, 1) * topScore * 0.4
DocScore(doc) == (doc.top_score * (15 + 2 * Min(doc.hit_count, 5))) \div 25

DocResult(doc) ==
    [doc.top_chunk EXCEPT
        !.file_path = doc.file_path,
        !.display_name = doc.display_name,
        !.score = DocScore(doc),
        !.hit_count = Some(doc.hit_count),
        !.doc_count = None,
        !.folder_path = None,
        !.aggregate_type = Some("doc")]

\* a faulty document rollup that forgets results.truncate(limit)
aggregate_by_doc_untruncated(hits, limit, order) ==
    LET doc_map == DocMap(hits) IN
    SortDesc([i \in 1..Len(order) |-> DocResult(doc_map[order[i]])])

\* order is the order in which doc_map.into_values() yields the groups
aggregate_by_doc(hits, limit, order) ==
    LET doc_map == DocMap(hits) IN
    Take(SortDesc([i \in 1..Len(order) |-> DocResult(doc_map[order[i]])]), limit)

\* folder_map after the grouping loop of aggregate_by_folder, from position i on
RECURSIVE FolderMapFrom(_, _, _)
FolderMapFrom(folder_map, hits, i) ==
    IF i > Len(hits) THEN folder_map
    ELSE LET hit == hits[i]
             key == FolderOf(hit.file_path)
             inserted ==
                 IF key \in DOMAIN folder_map THEN folder_map
                 ELSE [k \in DOMAIN folder_map \cup {key} |->
                          IF k = key
                          THEN [folder_path |-> key,
                                display_name |-> FolderDisplayName(key),
                                top_score |-> 0, hit_count |-> 0, docs |-> {},
                                top_chunk |-> hit]
                          ELSE folder_map[k]]
             counted == [CountHit(inserted[key]) EXCEPT !.docs = @ \cup {hit.file_path}]
         IN FolderMapFrom([inserted EXCEPT ![key] = TrackTop(counted, hit)], hits, i + 1)

FolderMap(hits) == FolderMapFrom(EmptyMap, hits, 1)

\* score = topScore * 0.5 + min(hitCount/10, 1) * topScore * 0.3
\*         + min(docCount/3, 1) * topScore * 0.2
FolderScore(folder) ==
    (folder.top_score
        * (150 + 9 * Min(folder.hit_count, 10) + 20 * Min(Cardinality(folder.docs), 3)))
    \div 300

FolderResult(folder) ==
    [folder.top_chunk EXCEPT
        !.display_name = folder.display_name,
        !.score = FolderScore(folder),
        !.hit_count = Some(folder.hit_count),
        !.doc_count = Some(Cardinality(folder.docs)),
        !.folder_path = Some(folder.folder_path),
        !.aggregate_type = Some("folder")]

\* order is the order in which folder_map.into_values() yields the groups
aggregate_by_folder(hits, limit, order) ==
    LET folder_map == FolderMap(hits) IN
    Take(SortDesc([i \in 1..Len(order) |-> FolderResult(folder_map[order[i]])]), limit)

-----------------------------------------------------------------------------
(* Hybrid retrieval: Searcher::hybrid_search *)

\* a faulty hybrid search that falls back to the keyword list when the vector
\* search fails
hybrid_search_fallback(all_chunks, query, limit, embed, store) ==
    LET candidate_limit == limit * 3
        vector_results == vector_search(embed, store, candidate_limit)
        keyword_results == keyword_search(all_chunks, query, candidate_limit)
    IN IF ~vector_results.ok
       THEN {Retrieved(Take(keyword_results, limit),
                       vector_results.steps \o <<"keyword_search">>)}
       ELSE {Retrieved(rrf_fusion(vector_results.hits, keyword_results, limit, order),
                       vector_results.steps \o <<"keyword_search", "rrf_fusion">>) :
                order \in Orders(DOMAIN FusedScores(vector_results.hits, keyword_results))}

\* the possible results of hybrid_search, one per iteration order of the
\* fusion map
hybrid_search(all_chunks, query, limit, embed, store) ==
    LET candidate_limit == limit * 3
        vector_results == vector_search(embed, store, candidate_limit)
        keyword_results == keyword_search(all_chunks, query, candidate_limit)
    IN IF ~vector_results.ok
       THEN {Failed(vector_results.err, vector_results.steps)}
       ELSE {Retrieved(rrf_fusion(vector_results.hits, keyword_results, limit, order),
                       vector_results.steps \o <<"keyword_search", "rrf_fusion">>) :
                order \in Orders(DOMAIN FusedScores(vector_results.hits, keyword_results))}

-----------------------------------------------------------------------------
(* Searcher::new and Searcher::search *)

\* bound of the searcher model: the largest options.limit
MaxLimit == 2

\* the indexed chunks
Chunk1 == Hit(PathAX, Some(1), TextHello, None, 0, "none")

Chunk2 == Hit(PathAX, None, TextData, Some("idea"), 0, "none")

Chunk3 == Hit(PathAY, Some(0), TextMixed, Some("doc"), 0, "none")

Chunk4 == Hit(PathBZ, Some(3), TextHelloWorld, None, 0, "none")

\* what get_all_chunks may return
Corpora == {<<>>, <<Chunk1, Chunk2, Chunk3, Chunk4>>}

Scored(chunk, score) == [chunk EXCEPT !.score = score]

\* what the vector store may rank for a query (similarity scores may be zero
\* or negative)
StoreRankings ==
    {<<>>,
     <<Scored(Chunk4, (9 * ONE) \div 10), Scored(Chunk1, (4 * ONE) \div 10),
       Scored(Chunk3, 0), Scored(Chunk2, 0 - (ONE \div 10))>>,
     <<Scored(Chunk2, (5 * ONE) \div 10), Scored(Chunk3, (5 * ONE) \div 10),
       Scored(Chunk1, (2 * ONE) \div 10)>>}

Queries == {<<32, 9>>, <<32, 104, 105, 32>>, <<25968, 25454>>}

SearchOptions ==
    [query : Queries,
     mode : {"vector", "keyword", "hybrid"},
     limit : 0..MaxLimit,
     aggregate_by : {"content", "doc", "folder"},
     doc_type : {None, Some("idea"), Some("doc")}]

NoSearcher == [status |-> "none", err |-> "", all_chunks |-> <<>>]

\* a faulty constructor that ignores a failure of EmbeddingClient::new
NewResultLenient(init, client, chunks) ==
    IF ~init.ok THEN [status |-> "err", err |-> init.err, all_chunks |-> <<>>]
    ELSE [status |-> "ok", err |-> "",
          all_chunks |-> IF chunks.ok THEN chunks.value ELSE <<>>]

\* Searcher::new: vector_store.initialize().await?; EmbeddingClient::new(..)?;
\* vector_store.get_all_chunks().await.unwrap_or_default()
NewResult(init, client, chunks) ==
    IF ~init.ok THEN [status |-> "err", err |-> init.err, all_chunks |-> <<>>]
    ELSE IF ~client.ok THEN [status |-> "err", err |-> client.err, all_chunks |-> <<>>]
    ELSE [status |-> "ok", err |-> "",
          all_chunks |-> IF chunks.ok THEN chunks.value ELSE <<>>]

\* the construction steps new runs, in order, each with its outcome
NewSteps(init, client, chunks) ==
    IF ~init.ok THEN <<[step |-> "initialize", ok |-> FALSE]>>
    ELSE IF ~client.ok
    THEN <<[step |-> "initialize", ok |-> TRUE],
           [step |-> "EmbeddingClient::new", ok |-> FALSE]>>
    ELSE <<[step |-> "initialize", ok |-> TRUE],
           [step |-> "EmbeddingClient::new", ok |-> TRUE],
           [step |-> "get_all_chunks", ok |-> chunks.ok]>>

New(init, client, chunks) ==
    /\ searcher.status = "none"
    /\ searcher' = NewResult(init, client, chunks)
    /\ newLog' = NewSteps(init, client, chunks)
    /\ UNCHANGED <<pending, lastCall, response, trace>>
    /\ UNCHANGED <<busVars, fusionVars, aggVars, kwVars, tokVars>>

IsWhitespace(c) == c \in {9, 10, 11, 12, 13, 32}

\* str::trim
RECURSIVE TrimStart(_)
TrimStart(q) == IF q # <<>> /\ IsWhitespace(Head(q)) THEN TrimStart(Tail(q)) ELSE q

RECURSIVE TrimEnd(_)
TrimEnd(q) ==
    IF q # <<>> /\ IsWhitespace(q[Len(q)]) THEN TrimEnd(SubSeq(q, 1, Len(q) - 1)) ELSE q

Trim(q) == TrimEnd(TrimStart(q))

\* SearchResults::empty(query)
SearchResultsEmpty(query) ==
    [query |-> query, count |-> 0, results |-> <<>>, mode |-> None,
     aggregate_by |-> None, index_missing |-> None, error |-> None]

\* SearchResults::index_not_built(query)
SearchResultsIndexNotBuilt(query) ==
    [query |-> query, count |-> 0, results |-> <<>>, mode |-> None,
     aggregate_by |-> None, index_missing |-> Some(TRUE),
     error |-> Some("Index not built")]

\* what search gives back with the steps it ran: Ok(SearchResults) or Err(kind)
Returned(results, steps) == [ok |-> TRUE, err |-> "", value |-> results, steps |-> steps]

Raised(kind, steps) ==
    [ok |-> FALSE, err |-> kind, value |-> SearchResultsEmpty(<<>>), steps |-> steps]

\* the mode-specific retriever: the possible outcomes
Retrieve(all_chunks, query, mode, search_limit, embed, store) ==
    IF mode = "vector" THEN {vector_search(embed, store, search_limit)}
    ELSE IF mode = "keyword"
    THEN {Retrieved(keyword_search(all_chunks, query, search_limit), <<"keyword_search">>)}
    ELSE hybrid_search(all_chunks, query, search_limit, embed, store)

\* hits.retain(..) for the doc_type option
KeepHit(filter_type, hit) ==
    IF filter_type = "idea" THEN hit.doc_type = Some("idea")
    ELSE IF filter_type = "doc" THEN UnwrapOr(hit.doc_type, "doc") = "doc"
    ELSE TRUE

Filter(doc_type, hits) ==
    IF doc_type = None THEN hits ELSE SelectSeq(hits, LAMBDA h : KeepHit(doc_type[1], h))

\* the aggregation step: the possible result lists
Aggregate(aggregate_by, hits, limit) ==
    IF aggregate_by = "content" THEN {Take(hits, limit)}
    ELSE IF aggregate_by = "doc"
    THEN {aggregate_by_doc(hits, limit, order) : order \in Orders(DOMAIN DocMap(hits))}
    ELSE {aggregate_by_folder(hits, limit, order) : order \in Orders(DOMAIN FolderMap(hits))}

\* search after the two early returns: retrieve, filter, aggregate, respond
Pipeline(all_chunks, query, options, embed, store) ==
    LET limit == options.limit
        search_limit == IF options.aggregate_by = "content" THEN limit ELSE limit * 5
        outcomes == Retrieve(all_chunks, query, options.mode, search_limit, embed, store)
    IN UNION {
         IF ~r.ok
         THEN {Raised(r.err, <<"exists">> \o r.steps)}
         ELSE {Returned([query |-> query, count |-> Len(results), results |-> results,
                         mode |-> Some(options.mode),
                         aggregate_by |-> Some(options.aggregate_by),
                         index_missing |-> None, error |-> None],
                        <<"exists">> \o r.steps
                          \o (IF options.doc_type = None THEN <<>> ELSE <<"filter">>)
                          \o <<"aggregate">>) :
                 results \in Aggregate(options.aggregate_by,
                                       Filter(options.doc_type, r.hits), limit)}
         : r \in outcomes}

\* a faulty search that tests the untrimmed query for emptiness
SearchOutcomesUntrimmed(all_chunks, options, exists, embed, store) ==
    LET query == Trim(options.query) IN
    IF options.query = <<>> THEN {Returned(SearchResultsEmpty(query), <<>>)}
    ELSE IF ~exists THEN {Returned(SearchResultsIndexNotBuilt(query), <<"exists">>)}
    ELSE Pipeline(all_chunks, query, options, embed, store)

\* a faulty search that probes the index only for the modes that use it
SearchOutcomesKeywordUnprobed(all_chunks, options, exists, embed, store) ==
    LET query == Trim(options.query) IN
    IF query = <<>> THEN {Returned(SearchResultsEmpty(query), <<>>)}
    ELSE IF options.mode # "keyword" /\ ~exists
    THEN {Returned(SearchResultsIndexNotBuilt(query), <<"exists">>)}
    ELSE Pipeline(all_chunks, query, options, embed, store)

\* Searcher::search: everything the call may return, with the steps it ran
SearchOutcomes(all_chunks, options, exists, embed, store) ==
    LET query == Trim(options.query) IN
    IF query = <<>> THEN {Returned(SearchResultsEmpty(query), <<>>)}
    ELSE IF ~exists THEN {Returned(SearchResultsIndexNotBuilt(query), <<"exists">>)}
    ELSE Pipeline(all_chunks, query, options, embed, store)

NoResponse == [ok |-> TRUE, err |-> "", value |-> SearchResultsEmpty(<<>>)]

\* a caller invokes search(options) on the constructed searcher; what the
\* previous call returned has been consumed
Call(options) ==
    /\ searcher.status = "ok"
    /\ pending = None
    /\ pending' = Some(options)
    /\ lastCall' = None
    /\ response' = NoResponse
    /\ trace' = <<>>
    /\ UNCHANGED <<searcher, newLog>>
    /\ UNCHANGED <<busVars, fusionVars, aggVars, kwVars, tokVars>>

\* the call in flight runs to completion; exists, embed and store are the
\* outcomes of vector_store.exists, embed_one and vector_store.search
Search(exists, embed, store) ==
    /\ pending # None
    /\ \E out \in SearchOutcomes(searcher.all_chunks, pending[1], exists, embed, store) :
          /\ response' = [ok |-> out.ok, err |-> out.err, value |-> out.value]
          /\ trace' = out.steps
    /\ lastCall' = Some([options |-> pending[1], exists |-> exists,
                         embed |-> embed, store |-> store])
    /\ pending' = None
    /\ UNCHANGED <<searcher, newLog>>
    /\ UNCHANGED <<busVars, fusionVars, aggVars, kwVars, tokVars>>

SearchInit ==
    /\ searcher = NoSearcher
    /\ newLog = <<>>
    /\ pending = None
    /\ lastCall = None
    /\ response = NoResponse
    /\ trace = <<>>

-----------------------------------------------------------------------------
(* rrf_fusion applied to drawn inputs *)

\* bound: the longest ranked list handed to rrf_fusion
MaxList == 2

\* three chunks, two of which share the fusion key (a/x.md, 0)
FusionChunks ==
    {Hit(PathAX, Some(0), TextHello, None, 0, "none"),
     Hit(PathAX, None, TextData, None, 0, "none"),
     Hit(PathBZ, Some(3), TextHelloWorld, None, 0, "none")}

\* the ranked lists of at most n distinct chunks, tagged as their retriever
\* tags them
RankedLists(n, matched) ==
    UNION {{q \in [1..k -> {[c EXCEPT !.matched_by = matched] : c \in FusionChunks}] :
               \A i, j \in 1..k : q[i] = q[j] => i = j} : k \in 0..n}

\* chunk i of a file indexed without line numbers
Filler(i, matched) ==
    Hit(PathAX, None, <<104, 105, 32, 48 + (i \div 10), 48 + (i % 10)>>,
        None, 0, matched)

\* two ranked lists of distinct chunks in which a chunk of b/z.md is at
\* 0-based ranks 4 (vector) and 17 (keyword) and a chunk of a/y.md at ranks
\* 9 (vector) and 4 (keyword): 0.7/65 + 0.3/78 and 0.7/70 + 0.3/65 are the
\* same number, also as sums of f32 values
TieVector ==
    [i \in 1..10 |->
        IF i = 5 THEN Hit(PathBZ, Some(3), TextHelloWorld, None, 0, "vector")
        ELSE IF i = 10 THEN Hit(PathAY, Some(0), TextMixed, None, 0, "vector")
        ELSE Filler(i, "vector")]

TieKeyword ==
    [j \in 1..18 |->
        IF j = 18 THEN Hit(PathBZ, Some(3), TextHelloWorld, None, 0, "keyword")
        ELSE IF j = 5 THEN Hit(PathAY, Some(0), TextMixed, None, 0, "keyword")
        ELSE Filler(j, "keyword")]

NoFusion == [done |-> FALSE, scores |-> EmptyMap, results |-> <<>>]

NoRerun == [done |-> FALSE, results |-> <<>>]

FusionIdle ==
    /\ fusionIn = [vector_results |-> <<>>, keyword_results |-> <<>>, limit |-> 0]
    /\ fusionOut = NoFusion
    /\ fusionAgain = NoRerun

FusionInit ==
    /\ fusionIn \in [vector_results : RankedLists(MaxList, "vector"),
                     keyword_results : RankedLists(MaxList, "keyword"),
                     limit : 0..MaxLimit]
                    \cup [vector_results : {TieVector},
                          keyword_results : {TieKeyword},
                          limit : 0..MaxLimit]
    /\ fusionOut = NoFusion
    /\ fusionAgain = NoRerun

\* one execution of rrf_fusion on the drawn input
Fuse(order) ==
    /\ ~fusionOut.done
    /\ fusionOut' =
          [done |-> TRUE,
           scores |-> FusedScores(fusionIn.vector_results, fusionIn.keyword_results),
           results |-> rrf_fusion(fusionIn.vector_results, fusionIn.keyword_results,
                                  fusionIn.limit, order)]
    /\ UNCHANGED <<fusionIn, fusionAgain>>
    /\ UNCHANGED <<busVars, searchVars, aggVars, kwVars, tokVars>>

\* a second execution of rrf_fusion on the same input
FuseAgain(order) ==
    /\ fusionOut.done
    /\ ~fusionAgain.done
    /\ fusionAgain' =
          [done |-> TRUE,
           results |-> rrf_fusion(fusionIn.vector_results, fusionIn.keyword_results,
                                  fusionIn.limit, order)]
    /\ UNCHANGED <<fusionIn, fusionOut>>
    /\ UNCHANGED <<busVars, searchVars, aggVars, kwVars, tokVars>>

-----------------------------------------------------------------------------
(* keyword_search applied to drawn inputs *)

\* bound: the largest corpus handed to keyword_search
MaxCorpus == 3

TextHiHiWo == <<104, 105, 32, 104, 105, 32, 119, 111>>

Chunk5 == Hit(PathRoot, None, TextHiHiWo, None, 0, "none")

KwChunks == {Chunk1, Chunk2, Chunk3, Chunk4, Chunk5}

\* the corpora of at most n distinct chunks
KwCorpora(n) ==
    UNION {{q \in [1..k -> KwChunks] : \A i, j \in 1..k : q[i] = q[j] => i = j} :
              k \in 0..n}

\* blank, "hi", CJK, two words, and a query no chunk matches
KwQueries == Queries \cup {<<104, 105, 32, 119, 111>>, <<122, 122>>}

NoKeyword == [done |-> FALSE, results |-> <<>>]

KwIdle ==
    /\ kwIn = [all_chunks |-> <<>>, query |-> <<>>, limit |-> 0]
    /\ kwOut = NoKeyword

KwInit ==
    /\ kwIn \in [all_chunks : KwCorpora(MaxCorpus), query : KwQueries,
                  limit : 0..MaxLimit]
    /\ kwOut = NoKeyword

\* one execution of keyword_search on the drawn input
KeywordSearch ==
    /\ ~kwOut.done
    /\ kwOut' = [done |-> TRUE,
                 results |-> keyword_search(kwIn.all_chunks, kwIn.query, kwIn.limit)]
    /\ UNCHANGED kwIn
    /\ UNCHANGED <<busVars, searchVars, fusionVars, aggVars, tokVars>>

-----------------------------------------------------------------------------
(* tokenize applied to drawn inputs *)

\* bound: the longest text handed to tokenize
MaxText == 4

\* the first and the last character of the CJK block, one inside it, a latin
\* letter and a space
TokChars == {19968, 40959, 25968, 97, 32}

TokTexts(n) == UNION {[1..k -> TokChars] : k \in 0..n}

NoTokens == [done |-> FALSE, tokens |-> <<>>]

TokIdle ==
    /\ tokIn = <<>>
    /\ tokOut = NoTokens

TokInit ==
    /\ tokIn \in TokTexts(MaxText)
    /\ tokOut = NoTokens

\* one execution of tokenize on the drawn input
Tokenize ==
    /\ ~tokOut.done
    /\ tokOut' = [done |-> TRUE, tokens |-> tokenize(tokIn)]
    /\ UNCHANGED tokIn
    /\ UNCHANGED <<busVars, searchVars, fusionVars, aggVars, kwVars>>

-----------------------------------------------------------------------------
(* the aggregators applied to drawn inputs *)

\* bound: the longest hit list handed to an aggregator
MaxHits == 3

AggHits ==
    {Hit(PathAX, Some(1), TextHello, None, ONE \div 2, "vector"),
     Hit(PathAX, Some(7), TextData, None, ONE, "vector"),
     Hit(PathAX, None, TextMixed, None, 0 - (ONE \div 2), "vector"),
     Hit(PathAY, Some(0), TextMixed, Some("doc"), 0, "vector"),
     Hit(PathAY, Some(4), TextHello, Some("doc"), ONE, "keyword"),
     Hit(PathRoot, None, TextData, Some("idea"), 0 - (ONE \div 4), "vector"),
     Hit(PathRoot, Some(2), TextHello, Some("idea"), ONE \div 4, "hybrid"),
     Hit(PathBZ, Some(3), TextHelloWorld, None, 0, "vector")}

NoAgg == [kind |-> "none", groups |-> EmptyMap, results |-> <<>>]

AggIdle ==
    /\ aggIn = [hits |-> <<>>, limit |-> 0]
    /\ aggOut = NoAgg

AggInit ==
    /\ aggIn \in [hits : UNION {[1..k -> AggHits] : k \in 0..MaxHits},
                  limit : 0..MaxHits]
    /\ aggOut = NoAgg

\* one execution of aggregate_by_doc on the drawn input
AggregateByDoc(order) ==
    /\ aggOut.kind = "none"
    /\ aggOut' = [kind |-> "doc", groups |-> DocMap(aggIn.hits),
                  results |-> aggregate_by_doc(aggIn.hits, aggIn.limit, order)]
    /\ UNCHANGED aggIn
    /\ UNCHANGED <<busVars, searchVars, fusionVars, kwVars, tokVars>>

\* one execution of aggregate_by_folder on the drawn input
AggregateByFolder(order) ==
    /\ aggOut.kind = "none"
    /\ aggOut' = [kind |-> "folder", groups |-> FolderMap(aggIn.hits),
                  results |-> aggregate_by_folder(aggIn.hits, aggIn.limit, order)]
    /\ UNCHANGED aggIn
    /\ UNCHANGED <<busVars, searchVars, fusionVars, kwVars, tokVars>>

-----------------------------------------------------------------------------
(* Specifications *)

Init == BusInit /\ SearchInit /\ FusionIdle /\ AggIdle /\ KwIdle /\ TokIdle

\* the searcher: construction, then search calls
Next ==
    \/ \E init \in {Ok(<<>>), Err("VectorStore")},
          client \in {Ok(<<>>), Err("Config")},
          chunks \in {Ok(c) : c \in Corpora} \cup {Err("VectorStore")} :
            New(init, client, chunks)
    \/ \E options \in SearchOptions : Call(options)
    \/ \E exists \in BOOLEAN,
          embed \in {Ok(<<>>), Err("Embedding")},
          store \in {Ok(r) : r \in StoreRankings} \cup {Err("VectorStore")} :
            Search(exists, embed, store)

Spec == Init /\ [][Next]_vars

\* the event bus: subscribers and publishers interleave freely
BusNext ==
    \/ \E s \in Subscribers : subscribe(s)
    \/ \E e \in DocEvents : emit_doc(e)
    \/ \E e \in FolderEvents : emit_folder(e)
    \/ \E s \in Subscribers : recv(s)

SpecBus == Init /\ [][BusNext]_vars

\* rrf_fusion on every pair of ranked lists within the bounds
FusionNext ==
    \/ \E order \in Orders(DOMAIN FusedScores(fusionIn.vector_results,
                                              fusionIn.keyword_results)) : Fuse(order)
    \/ \E order \in Orders(DOMAIN FusedScores(fusionIn.vector_results,
                                              fusionIn.keyword_results)) : FuseAgain(order)

InitFusion == BusInit /\ SearchInit /\ FusionInit /\ AggIdle /\ KwIdle /\ TokIdle

SpecFusion == InitFusion /\ [][FusionNext]_vars

\* the aggregators on every hit list within the bounds
AggNext ==
    \/ \E order \in Orders(DOMAIN DocMap(aggIn.hits)) : AggregateByDoc(order)
    \/ \E order \in Orders(DOMAIN FolderMap(aggIn.hits)) : AggregateByFolder(order)

InitAgg == BusInit /\ SearchInit /\ FusionIdle /\ AggInit /\ KwIdle /\ TokIdle

SpecAgg == InitAgg /\ [][AggNext]_vars

\* keyword_search on every corpus, query and limit within the bounds
KeywordNext == KeywordSearch

InitKeyword == BusInit /\ SearchInit /\ FusionIdle /\ AggIdle /\ KwInit /\ TokIdle

SpecKeyword == InitKeyword /\ [][KeywordNext]_vars

\* tokenize on every text within the bounds
TokenizeNext == Tokenize

InitTokenize == BusInit /\ SearchInit /\ FusionIdle /\ AggIdle /\ KwIdle /\ TokInit

SpecTokenize == InitTokenize /\ [][TokenizeNext]_vars

-----------------------------------------------------------------------------
(* Searcher properties *)

\* the last search call has returned
Handled == lastCall # None

CallOptions == lastCall[1].options

\* C3: a successful search returns at most options.limit results and its
\* count is the number of results, whatever the mode, the aggregation, the
\* doc_type filter and the corpus.
C3_LimitRespected ==
    (Handled /\ response.ok) =>
        /\ Len(response.value.results) <= CallOptions.limit
        /\ response.value.count = Len(response.value.results)

\* a hybrid search rolled up by document filled its limit of one result
C3_Witness ==
    /\ Handled /\ response.ok
    /\ CallOptions.mode = "hybrid" /\ CallOptions.aggregate_by = "doc"
    /\ CallOptions.limit = 1
    /\ response.value.count = 1
    /\ "aggregate" \in Range(trace)

\* C4: a search whose query is empty after trimming returns successfully
\* with count 0 and no results, and runs no step at all: neither the index
\* probe nor the embedding client nor any retriever.
C4_EmptyQueryShortCircuit ==
    (Handled /\ Trim(CallOptions.query) = <<>>) =>
        /\ response.ok
        /\ response.value.count = 0
        /\ response.value.results = <<>>
        /\ trace = <<>>

\* a whitespace-only hybrid query was answered although the index exists and
\* the embedding client would have answered
C4_Witness ==
    /\ Handled
    /\ CallOptions.query = <<32, 9>>
    /\ CallOptions.mode = "hybrid"
    /\ lastCall[1].exists /\ lastCall[1].embed.ok
    /\ searcher.all_chunks # <<>>

\* C5: with a non-empty trimmed query and the index probe answering false,
\* search returns successfully with the index_missing marker and no results
\* in every mode, having called nothing but the probe.
C5_IndexMissing ==
    (Handled /\ Trim(CallOptions.query) # <<>> /\ ~lastCall[1].exists) =>
        /\ response.ok
        /\ response.value.index_missing = Some(TRUE)
        /\ response.value.results = <<>>
        /\ trace = <<"exists">>

\* a keyword search over a loaded corpus met a missing index
C5_Witness ==
    /\ Handled
    /\ CallOptions.mode = "keyword"
    /\ Trim(CallOptions.query) # <<>>
    /\ ~lastCall[1].exists
    /\ searcher.all_chunks # <<>>
    /\ CallOptions.limit > 0

\* the collaborator failure a vector or hybrid search meets first
FirstFailure == IF ~lastCall[1].embed.ok THEN lastCall[1].embed.err ELSE lastCall[1].store.err

\* C6: in vector and hybrid mode a failure of embed_one or of the vector
\* store search is what search returns, as an error and without results; the
\* keyword scorer, the filter and the aggregation do not run after it.
C6_FailurePropagates ==
    (/\ Handled /\ Trim(CallOptions.query) # <<>> /\ lastCall[1].exists
     /\ CallOptions.mode \in {"vector", "hybrid"}
     /\ (~lastCall[1].embed.ok \/ ~lastCall[1].store.ok)) =>
        /\ ~response.ok
        /\ response.err = FirstFailure
        /\ response.value.results = <<>>
        /\ Range(trace) \cap {"keyword_search", "rrf_fusion", "filter", "aggregate"} = {}

\* a hybrid search whose query matches the corpus lost its vector store search
C6_Witness ==
    /\ Handled
    /\ CallOptions.mode = "hybrid"
    /\ lastCall[1].exists /\ lastCall[1].embed.ok /\ ~lastCall[1].store.ok
    /\ CallOptions.limit > 0
    /\ keyword_search(searcher.all_chunks, Trim(CallOptions.query), 1) # <<>>
    /\ ~response.ok

\* C7 as stated: new fails whenever one of its three construction steps
\* fails (initialize, EmbeddingClient::new, get_all_chunks).
C7_NewFailsOnAnyStep ==
    \A i \in 1..Len(newLog) : ~newLog[i].ok => searcher.status = "err"

\* C7 amended: new fails whenever initialize or EmbeddingClient::new fails;
\* a failure of get_all_chunks is not an error of new, which then returns a
\* Searcher whose chunk corpus is empty.
C7_NewFailsOnInitOrClient ==
    \A i \in 1..Len(newLog) :
        ~newLog[i].ok =>
            IF newLog[i].step \in {"initialize", "EmbeddingClient::new"}
            THEN searcher.status = "err"
            ELSE searcher.status = "ok" /\ searcher.all_chunks = <<>>

\* the embedding client could not be constructed after the store initialized
C7_Witness ==
    /\ Len(newLog) = 2
    /\ newLog[1].ok /\ ~newLog[2].ok
    /\ searcher.status = "err"

-----------------------------------------------------------------------------
(* rrf_fusion properties *)

KeysOf(list) == {FusionKey(list[i]) : i \in 1..Len(list)}

\* C8 as stated: a fused entry is tagged hybrid exactly when its key occurs
\* in both the vector list and the keyword list, vector when only in the
\* vector list, keyword when only in the keyword list.
C8_MatchedByLists ==
    fusionOut.done =>
        \A i \in 1..Len(fusionOut.results) :
            LET key == FusionKey(fusionOut.results[i])
                inVector == key \in KeysOf(fusionIn.vector_results)
                inKeyword == key \in KeysOf(fusionIn.keyword_results)
            IN fusionOut.results[i].matched_by =
                  IF inVector /\ inKeyword THEN "hybrid"
                  ELSE IF inVector THEN "vector" ELSE "keyword"

\* the contributions of one list to a key: weight / (60 + i + 1) summed over
\* the 0-based ranks i < n at which the key appears
RECURSIVE RankSum(_, _, _, _)
RankSum(list, key, weight, n) ==
    IF n = 0 THEN 0
    ELSE RankSum(list, key, weight, n - 1)
         + (IF FusionKey(list[n]) = key THEN weight \div (60 + (n - 1) + 1) ELSE 0)

\* the fused score the formula gives a key, with W_V = 0.7 and W_K = 0.3
FormulaScore(key) ==
    RankSum(fusionIn.vector_results, key, (7 * ONE) \div 10,
            Len(fusionIn.vector_results))
    + RankSum(fusionIn.keyword_results, key, (3 * ONE) \div 10,
              Len(fusionIn.keyword_results))

KeySeq(list) == [i \in 1..Len(list) |-> FusionKey(list[i])]

\* C11: the fused score of every key is the sum of 0.7/(60 + i + 1) over its
\* 0-based vector ranks i plus 0.3/(60 + j + 1) over its keyword ranks j; the
\* output is sorted by descending fused score; a key first in both lists (and
\* nowhere else) scores (0.7 + 0.3)/61; with vector list [x, z] and keyword
\* list [z, x], x (0.7/61 + 0.3/62) is ranked before z (0.7/62 + 0.3/61).
C11_FusedScoreFormula ==
    fusionOut.done =>
        LET v == fusionIn.vector_results
            k == fusionIn.keyword_results
            out == fusionOut.results
        IN /\ DOMAIN fusionOut.scores = KeysOf(v) \cup KeysOf(k)
           /\ \A key \in DOMAIN fusionOut.scores :
                  fusionOut.scores[key].score = FormulaScore(key)
           /\ \A i \in 1..Len(out) : out[i].score = FormulaScore(FusionKey(out[i]))
           /\ \A i, j \in 1..Len(out) : i < j => out[i].score >= out[j].score
           /\ \A key \in DOMAIN fusionOut.scores :
                  (/\ {i \in 1..Len(v) : FusionKey(v[i]) = key} = {1}
                   /\ {j \in 1..Len(k) : FusionKey(k[j]) = key} = {1})
                  => fusionOut.scores[key].score = ONE \div 61
           /\ \A x, z \in DOMAIN fusionOut.scores :
                  (/\ x # z
                   /\ KeySeq(v) = <<x, z>>
                   /\ KeySeq(k) = <<z, x>>
                   /\ fusionIn.limit >= 2)
                  => /\ KeySeq(out) = <<x, z>>
                     /\ out[1].score = ((7 * ONE) \div 10) \div 61 + ((3 * ONE) \div 10) \div 62
                     /\ out[2].score = ((7 * ONE) \div 10) \div 62 + ((3 * ONE) \div 10) \div 61

\* rrf_fusion has fused [x, z] with [z, x] and returned x before z
C11_Witness ==
    /\ fusionOut.done
    /\ Len(fusionIn.vector_results) = 2
    /\ Len(fusionIn.keyword_results) = 2
    /\ FusionKey(fusionIn.vector_results[1]) # FusionKey(fusionIn.vector_results[2])
    /\ KeySeq(fusionIn.keyword_results)
           = <<FusionKey(fusionIn.vector_results[2]), FusionKey(fusionIn.vector_results[1])>>
    /\ Len(fusionOut.results) = 2
    /\ FusionKey(fusionOut.results[1]) = FusionKey(fusionIn.vector_results[1])
    /\ fusionOut.results[1].score > fusionOut.results[2].score

\* C14 as stated: two executions of rrf_fusion on the same vector list,
\* keyword list and limit return the same hits in the same order, also when
\* several keys have equal fused scores.
C14_Deterministic ==
    (fusionOut.done /\ fusionAgain.done) => fusionOut.results = fusionAgain.results

\* the fused score of the hit is the fused score of no other key
Untied(hit) ==
    \A key \in DOMAIN fusionOut.scores :
        key # FusionKey(hit) => fusionOut.scores[key].score # hit.score

\* C14: two executions of rrf_fusion on the same vector list, keyword list
\* and limit return lists of the same length that carry the same fused score
\* at every position, and a hit whose fused score no other key shares is at
\* the same position in both; only keys with equal fused scores may change
\* places, or replace one another at the truncation boundary.
C14_DeterministicUpToTies ==
    (fusionOut.done /\ fusionAgain.done) =>
        LET first == fusionOut.results
            second == fusionAgain.results
        IN /\ Len(first) = Len(second)
           /\ \A i \in 1..Len(first) :
                  /\ first[i].score = second[i].score
                  /\ Untied(first[i]) => first[i] = second[i]

\* two executions on the same input have returned different hits: the hit
\* that survived truncation is another key of the same fused score
C14_Witness ==
    /\ fusionOut.done
    /\ fusionAgain.done
    /\ Len(fusionOut.results) = 2
    /\ Untied(fusionOut.results[1])
    /\ ~Untied(fusionOut.results[2])
    /\ FusionKey(fusionOut.results[2]) # FusionKey(fusionAgain.results[2])

-----------------------------------------------------------------------------
(* keyword_search properties *)

\* the raw BM25 score of chunk c of the corpus for the query
RawScore(c) ==
    Bm25From(tokenize(kwIn.query), 1, DocTokens(kwIn.all_chunks[c]),
             kwIn.all_chunks, TotalLength(kwIn.all_chunks))

\* the largest raw score of the corpus
MaxRaw ==
    CHOOSE m \in {RawScore(c) : c \in 1..Len(kwIn.all_chunks)} :
        \A c \in 1..Len(kwIn.all_chunks) : RawScore(c) <= m

\* C12: a non-empty keyword_search result is sorted by descending score, its
\* first hit scores exactly 1.0, every score is the raw score divided by the
\* maximum raw score and lies in (0, 1], every hit is tagged keyword, and no
\* chunk whose raw BM25 score is <= 0 appears.
C12_KeywordNormalized ==
    (kwOut.done /\ kwOut.results # <<>>) =>
        LET out == kwOut.results IN
        /\ \A i, j \in 1..Len(out) : i < j => out[i].score >= out[j].score
        /\ out[1].score = ONE
        /\ \A i \in 1..Len(out) :
               /\ out[i].score > 0
               /\ out[i].score <= ONE
               /\ out[i].matched_by = "keyword"
               /\ \E c \in 1..Len(kwIn.all_chunks) :
                      /\ RawScore(c) > 0
                      /\ out[i] = [kwIn.all_chunks[c] EXCEPT
                                      !.matched_by = "keyword",
                                      !.score = ((RawScore(c) * 1000) \div MaxRaw)
                                                   * (ONE \div 1000)]

\* keyword_search has ranked two chunks with different scores and left out a
\* chunk of the corpus that scores 0
C12_Witness ==
    /\ kwOut.done
    /\ Len(kwOut.results) = 2
    /\ kwOut.results[1].score = ONE
    /\ kwOut.results[2].score < ONE
    /\ \E c \in 1..Len(kwIn.all_chunks) : RawScore(c) = 0

-----------------------------------------------------------------------------
(* tokenize properties *)

\* the text consists only of characters U+4E00..U+9FFF
CjkOnly(text) == \A i \in 1..Len(text) : text[i] >= 19968 /\ text[i] <= 40959

\* C13: for an input of n >= 2 characters, all in U+4E00..U+9FFF, tokenize
\* emits exactly n + (n - 1) tokens: for each position in order the single
\* character, immediately followed (except at the last position) by the
\* bigram of that character and the next.
C13_CjkTokens ==
    (tokOut.done /\ Len(tokIn) >= 2 /\ CjkOnly(tokIn)) =>
        LET n == Len(tokIn) IN
        /\ Len(tokOut.tokens) = n + (n - 1)
        /\ \A i \in 1..n : tokOut.tokens[2 * i - 1] = <<tokIn[i]>>
        /\ \A i \in 1..(n - 1) : tokOut.tokens[2 * i] = <<tokIn[i], tokIn[i + 1]>>

\* tokenize has turned a text of three CJK characters, the last of the block
\* among them, into five tokens
C13_Witness ==
    /\ tokOut.done
    /\ Len(tokIn) = 3
    /\ CjkOnly(tokIn)
    /\ 40959 \in Range(tokIn)
    /\ Len(tokOut.tokens) = 5

-----------------------------------------------------------------------------
(* aggregator properties *)

\* the directory key of a path, as the claim words it
DirKey(path) ==
    IF \A i \in 1..Len(path) : path[i] # "/" THEN <<".">>
    ELSE LET i == CHOOSE i \in 1..Len(path) :
                      path[i] = "/" /\ \A j \in (i + 1)..Len(path) : path[j] # "/"
         IN SubSeq(path, 1, i - 1)

GroupKey(hit) == IF aggOut.kind = "doc" THEN hit.file_path ELSE DirKey(hit.file_path)

\* the input hits of a group
Members(key) == {i \in 1..Len(aggIn.hits) : GroupKey(aggIn.hits[i]) = key}

GroupScore(group) == IF aggOut.kind = "doc" THEN DocScore(group) ELSE FolderScore(group)

\* C9 as stated: for any hit scores, zero and negative ones included, the
\* top score tracked for a group is the maximum score of its member hits and
\* the group's aggregated score is at most that top score.
C9_TopScoreIsMax ==
    aggOut.kind # "none" =>
        \A key \in DOMAIN aggOut.groups :
            /\ \E i \in Members(key) : aggOut.groups[key].top_score = aggIn.hits[i].score
            /\ \A i \in Members(key) : aggOut.groups[key].top_score >= aggIn.hits[i].score
            /\ GroupScore(aggOut.groups[key]) <= aggOut.groups[key].top_score

ResultKey(r) == IF aggOut.kind = "doc" THEN r.file_path ELSE r.folder_path[1]

\* C10: with a limit of at least the number of groups, the rollup returns
\* exactly one result per distinct group key (file_path for documents, the
\* directory key for folders, "." shown as "(root)"); its hit_count is the
\* number of input hits of the group, its doc_count is absent for documents
\* and the number of distinct file_paths of the group for folders; the
\* hit_counts sum to the number of input hits.
C10_GroupCountsExact ==
    (aggOut.kind # "none" /\ aggIn.limit >= Cardinality(DOMAIN aggOut.groups)) =>
        LET keys == {GroupKey(aggIn.hits[i]) : i \in 1..Len(aggIn.hits)}
            results == aggOut.results
        IN /\ Len(results) = Cardinality(keys)
           /\ \A key \in keys :
                 \E i \in 1..Len(results) :
                    /\ ResultKey(results[i]) = key
                    /\ \A j \in 1..Len(results) : ResultKey(results[j]) = key => j = i
                    /\ results[i].hit_count = Some(Cardinality(Members(key)))
                    /\ results[i].doc_count =
                          IF aggOut.kind = "doc" THEN None
                          ELSE Some(Cardinality({aggIn.hits[m].file_path : m \in Members(key)}))
                    /\ (aggOut.kind = "folder" /\ key = <<".">>) =>
                          results[i].display_name = <<"(root)">>
           /\ SumSeq([i \in 1..Len(results) |-> results[i].hit_count[1]]) = Len(aggIn.hits)

\* a folder rollup found three hits from two documents in one folder
C10_Witness ==
    /\ aggOut.kind = "folder"
    /\ aggIn.limit >= Cardinality(DOMAIN aggOut.groups)
    /\ \E i \in 1..Len(aggOut.results) :
          /\ aggOut.results[i].hit_count = Some(3)
          /\ aggOut.results[i].doc_count = Some(2)

=============================================================================
